---- MODULE Spec2Model ----
(***************************************************************************)
(* aerodata-orm: the fluent QueryBuilder (query/builder.py), the operator  *)
(* vocabulary (query/filters.py), the record lifecycle helpers of          *)
(* BaseModel (models/base.py) and the Backend interface they call          *)
(* (backends/base.py).                                                     *)
(*                                                                         *)
(* Python str values that the code takes apart (keyword names, operator    *)
(* tokens) are sequences of one-character strings, so that `"__" in key`   *)
(* and key.rsplit("__", 1) are computed rather than assumed.               *)
(* Optional[x] is a set: {} is None, {v} is the value v.                   *)
(***************************************************************************)
EXTENDS Integers, Sequences, FiniteSets, TLC

\* ------------------------------------------------------------------ bounds
MaxFilters == 2
MaxRelations == 1
MaxOrderBy == 1
MaxClock == 2

\* ------------------------------------------------------- Python str values
DELIM == <<"_", "_">>

EQ == <<"e", "q">>
NE == <<"n", "e">>
GT == <<"g", "t">>
GTE == <<"g", "t", "e">>
LT == <<"l", "t">>
LTE == <<"l", "t", "e">>
CONTAINS == <<"c", "o", "n", "t", "a", "i", "n", "s">>
IN_ == <<"i", "n">>
NOT_IN == <<"n", "o", "t", "_", "i", "n">>
IS_NULL == <<"i", "s", "_", "n", "u", "l", "l">>
IS_NOT_NULL == <<"i", "s", "_", "n", "o", "t", "_", "n", "u", "l", "l">>

FilterOperator ==
    {EQ, NE, GT, GTE, LT, LTE, CONTAINS, IN_, NOT_IN, IS_NULL, IS_NOT_NULL}

None == {}
Some(v) == {v}

\* sub in s
Contains(s, sub) ==
    \E i \in 1..(Len(s) - Len(sub) + 1) : SubSeq(s, i, i + Len(sub) - 1) = sub

\* s.find(sub), 1-based; 0 when sub does not occur
Find(s, sub) ==
    LET occ == {i \in 1..(Len(s) - Len(sub) + 1) :
                    SubSeq(s, i, i + Len(sub) - 1) = sub}
    IN IF occ = {} THEN 0 ELSE CHOOSE i \in occ : \A j \in occ : i <= j

\* s.rfind(sub), 1-based; 0 when sub does not occur
RFind(s, sub) ==
    LET occ == {i \in 1..(Len(s) - Len(sub) + 1) :
                    SubSeq(s, i, i + Len(sub) - 1) = sub}
    IN IF occ = {} THEN 0 ELSE CHOOSE i \in occ : \A j \in occ : j <= i

\* (mutant) splits at the first occurrence of the delimiter: key.split("__", 1)
RSplitAtFirst(key) ==
    LET i == Find(key, DELIM)
    IN <<SubSeq(key, 1, i - 1), SubSeq(key, i + Len(DELIM), Len(key))>>

\* key.rsplit("__", 1) for a key that contains "__": <<field, operator>>
RSplit(key) ==
    LET i == RFind(key, DELIM)
    IN <<SubSeq(key, 1, i - 1), SubSeq(key, i + Len(DELIM), Len(key))>>

\* the dict appended for one keyword argument (builder.py 64-77)
Condition(key, value) ==
    IF Contains(key, DELIM)
    THEN [field |-> RSplit(key)[1], operator |-> RSplit(key)[2], value |-> value]
    ELSE [field |-> key, operator |-> EQ, value |-> value]

\* ---------------------------------------------------------------- state
VARIABLES
    builders,   \* the QueryBuilder instances, in order of construction
    op,         \* the most recent call: name, receiver, arguments, whether it
                \* repeats the call before it, the backend calls it made
                \* (with their outcomes), and its own outcome
    record,     \* one BaseModel instance: id, created_at, updated_at
    now         \* the wall clock read by datetime.now()

vars == <<builders, op, record, now>>

\* QueryBuilder.__init__
QueryBuilder(model_class) ==
    [model_class |-> model_class,
     _filters |-> <<>>,
     _relations |-> <<>>,
     _order_by_fields |-> <<>>,
     _limit_value |-> None,
     _offset_value |-> None]

\* BaseModel.query
query(cls) == QueryBuilder(cls)

NewRecord == [id |-> None, created_at |-> None, updated_at |-> None]

NoOp == [name |-> "init", b |-> 0, args |-> <<>>, repeat |-> FALSE, calls |-> <<>>,
         result |-> [kind |-> "return", type |-> "NoneType", val |-> <<>>]]

\* ------------------------------------------------ outcomes of a Python call
Return(type, val) == [kind |-> "return", type |-> type, val |-> val]
Raise(type) == [kind |-> "raise", type |-> type, val |-> <<>>]
BackendError == Raise("BackendError")

\* what a Backend may answer to execute_query / count_query (backends/base.py):
\* a list of model instances / an int, or an error raised by the adapter
Rows == {"r1", "r2"}
ResultLists == {<<>>, <<"r1">>, <<"r2", "r1">>}
ExecResponses == {Return("list", l) : l \in ResultLists} \cup {BackendError}
Counts == {0, 1, 2}
CountResponses == {Return("int", n) : n \in Counts} \cup {BackendError}

\* ---------------------------------------------------- QueryBuilder methods
\* Each method is an operator from the receiver's fields (and the backend's
\* answers) to [self: the receiver afterwards, calls: the backend calls made,
\* result: what the method returns or raises].

\* (mutant) where() keeps one condition per field: a condition naming a field
\* that is already filtered replaces the earlier one
RECURSIVE where_loop_by_field(_, _)
where_loop_by_field(filters, kwargs) ==
    IF kwargs = <<>> THEN filters
    ELSE LET c == Condition(Head(kwargs).key, Head(kwargs).value)
             put == IF \E i \in DOMAIN filters : filters[i].field = c.field
                    THEN [i \in DOMAIN filters |->
                            IF filters[i].field = c.field THEN c ELSE filters[i]]
                    ELSE Append(filters, c)
         IN where_loop_by_field(put, Tail(kwargs))

RECURSIVE where_loop(_, _)
where_loop(filters, kwargs) ==
    IF kwargs = <<>> THEN filters
    ELSE where_loop(Append(filters, Condition(Head(kwargs).key, Head(kwargs).value)),
                    Tail(kwargs))

where(self, kwargs) ==
    [self |-> [self EXCEPT !._filters = where_loop(@, kwargs)],
     calls |-> <<>>,
     result |-> Return("QueryBuilder", "self")]

with_relations(self, relations) ==
    [self |-> [self EXCEPT !._relations = @ \o relations],
     calls |-> <<>>,
     result |-> Return("QueryBuilder", "self")]

with_engines(self) == with_relations(self, <<"engines">>)

with_aircraft(self) == with_relations(self, <<"aircraft">>)

with_route(self) == with_relations(self, <<"route">>)

order_by(self, fields) ==
    [self |-> [self EXCEPT !._order_by_fields = @ \o fields],
     calls |-> <<>>,
     result |-> Return("QueryBuilder", "self")]

\* (mutant) a second limit() adds to the first instead of replacing it
limit_accumulates(self, n) ==
    [self |-> [self EXCEPT !._limit_value =
                   IF @ = None THEN Some(n) ELSE {v + n : v \in @}],
     calls |-> <<>>,
     result |-> Return("QueryBuilder", "self")]

limit(self, n) ==
    [self |-> [self EXCEPT !._limit_value = Some(n)],
     calls |-> <<>>,
     result |-> Return("QueryBuilder", "self")]

offset(self, n) ==
    [self |-> [self EXCEPT !._offset_value = Some(n)],
     calls |-> <<>>,
     result |-> Return("QueryBuilder", "self")]

\* self.backend.execute_query(model_class=..., filters=..., relations=...,
\*                            order_by=..., limit=..., offset=...)
execute_query(self, response) ==
    [method |-> "execute_query",
     model_class |-> self.model_class,
     filters |-> self._filters,
     relations |-> self._relations,
     order_by |-> self._order_by_fields,
     limit |-> self._limit_value,
     offset |-> self._offset_value,
     response |-> response]

\* self.backend.count_query(model_class=..., filters=...)
count_query(self, response) ==
    [method |-> "count_query",
     model_class |-> self.model_class,
     filters |-> self._filters,
     response |-> response]

\* (mutant) first() keeps a limit that was set before: `if limit is None: limit = 1`
first_keeps_limit(self, response) ==
    LET s1 == IF self._limit_value = None
              THEN [self EXCEPT !._limit_value = Some(1)] ELSE self
    IN [self |-> s1,
        calls |-> <<execute_query(s1, response)>>,
        result |-> IF response.kind = "raise" THEN response
                   ELSE IF response.val # <<>>
                        THEN Return("record", response.val[1])
                        ELSE Return("NoneType", <<>>)]

first(self, response) ==
    LET s1 == [self EXCEPT !._limit_value = Some(1)]
    IN [self |-> s1,
        calls |-> <<execute_query(s1, response)>>,
        result |-> IF response.kind = "raise" THEN response
                   ELSE IF response.val # <<>>
                        THEN Return("record", response.val[1])
                        ELSE Return("NoneType", <<>>)]

\* (mutant) all() forgets to pass the offset on
all_without_offset(self, response) ==
    [self |-> self,
     calls |-> <<execute_query([self EXCEPT !._offset_value = None], response)>>,
     result |-> response]

\* (mutant) all() catches the backend's error and answers the empty list
all_empty_on_error(self, response) ==
    [self |-> self,
     calls |-> <<execute_query(self, response)>>,
     result |-> IF response.kind = "raise" THEN Return("list", <<>>) ELSE response]

all(self, response) ==
    [self |-> self,
     calls |-> <<execute_query(self, response)>>,
     result |-> response]

\* (mutant) count() runs the full query and counts the rows: limit and offset
\* reach the backend
count_with_pagination(self, response) ==
    [self |-> self,
     calls |-> <<[method |-> "count_query",
                  model_class |-> self.model_class,
                  filters |-> self._filters,
                  limit |-> self._limit_value,
                  offset |-> self._offset_value,
                  response |-> response]>>,
     result |-> response]

count(self, response) ==
    [self |-> self,
     calls |-> <<count_query(self, response)>>,
     result |-> response]

\* (mutant) off by one: count() > 1
exists_more_than_one(self, response) ==
    LET c == count(self, response)
    IN [self |-> c.self,
        calls |-> c.calls,
        result |-> IF c.result.kind = "raise" THEN c.result
                   ELSE Return("bool", c.result.val > 1)]

exists(self, response) ==
    LET c == count(self, response)
    IN [self |-> c.self,
        calls |-> c.calls,
        result |-> IF c.result.kind = "raise" THEN c.result
                   ELSE Return("bool", c.result.val > 0)]

\* ------------------------------------------------------------ the actions
\* (mutant) the intent is kept in class attributes: a call on one builder
\* shows on every builder of the same record type
Call_class_level_intent(b, name, args, out) ==
    /\ builders' = [o \in DOMAIN builders |->
                        IF builders[o].model_class = builders[b].model_class
                        THEN out.self ELSE builders[o]]
    /\ op' = [name |-> name, b |-> b, args |-> args,
              repeat |-> (op.name = name /\ op.b = b /\ op.args = args),
              calls |-> out.calls, result |-> out.result]
    /\ UNCHANGED <<record, now>>

\* A call of method `name` on builder b with arguments args and outcome out.
Call(b, name, args, out) ==
    /\ builders' = [builders EXCEPT ![b] = out.self]
    /\ op' = [name |-> name, b |-> b, args |-> args,
              repeat |-> (op.name = name /\ op.b = b /\ op.args = args),
              calls |-> out.calls, result |-> out.result]
    /\ UNCHANGED <<record, now>>

Where(b, kwargs) ==
    /\ Len(builders[b]._filters) + Len(kwargs) <= MaxFilters
    /\ Call(b, "where", kwargs, where(builders[b], kwargs))

WithRelations(b, relations) ==
    /\ Len(builders[b]._relations) + Len(relations) <= MaxRelations
    /\ Call(b, "with_relations", relations, with_relations(builders[b], relations))

WithEngines(b) ==
    /\ Len(builders[b]._relations) < MaxRelations
    /\ Call(b, "with_engines", <<>>, with_engines(builders[b]))

WithAircraft(b) ==
    /\ Len(builders[b]._relations) < MaxRelations
    /\ Call(b, "with_aircraft", <<>>, with_aircraft(builders[b]))

WithRoute(b) ==
    /\ Len(builders[b]._relations) < MaxRelations
    /\ Call(b, "with_route", <<>>, with_route(builders[b]))

OrderBy(b, fields) ==
    /\ Len(builders[b]._order_by_fields) + Len(fields) <= MaxOrderBy
    /\ Call(b, "order_by", fields, order_by(builders[b], fields))

Limit(b, n) == Call(b, "limit", <<n>>, limit(builders[b], n))

Offset(b, n) == Call(b, "offset", <<n>>, offset(builders[b], n))

First(b, response) == Call(b, "first", <<>>, first(builders[b], response))

\* (mutant) a second all() in a row answers from the first one's result
AllCached(b, response) ==
    IF op.name = "all" /\ op.b = b
    THEN Call(b, "all", <<>>, [self |-> builders[b], calls |-> <<>>, result |-> op.result])
    ELSE Call(b, "all", <<>>, all(builders[b], response))

All(b, response) == Call(b, "all", <<>>, all(builders[b], response))

Count(b, response) == Call(b, "count", <<>>, count(builders[b], response))

Exists(b, response) == Call(b, "exists", <<>>, exists(builders[b], response))

\* ------------------------------------------------------------ inputs
PyStr(s) == [type |-> "str", repr |-> s]
PyInt(s) == [type |-> "int", repr |-> s]
PyList(s) == [type |-> "list", repr |-> s]

manufacturer == <<"m", "a", "n", "u", "f", "a", "c", "t", "u", "r", "e", "r">>
max_speed == <<"m", "a", "x", "_", "s", "p", "e", "e", "d">>

Kw(key, value) == [key |-> key, value |-> value]

\* the keyword arguments of the README / docstring example
KwExample ==
    {<<Kw(manufacturer, PyStr("Boeing"))>>,
     <<Kw(max_speed \o DELIM \o GT, PyInt("500"))>>}

RelationArgs == {<<>>, <<"engines">>, <<"engines", "route">>}
OrderArgs == {<<"-max_speed">>, <<"-max_speed", "manufacturer">>}
LimitArgs == {1, 10}
OffsetArgs == {0, 20}

\* ------------------------------------------------- one builder, every call
Init ==
    /\ builders = <<query("Aircraft")>>
    /\ op = NoOp
    /\ record = NewRecord
    /\ now = 0

Next ==
    \/ \E b \in DOMAIN builders, kwargs \in KwExample : Where(b, kwargs)
    \/ \E b \in DOMAIN builders, relations \in RelationArgs : WithRelations(b, relations)
    \/ \E b \in DOMAIN builders : WithEngines(b)
    \/ \E b \in DOMAIN builders : WithAircraft(b)
    \/ \E b \in DOMAIN builders : WithRoute(b)
    \/ \E b \in DOMAIN builders, fields \in OrderArgs : OrderBy(b, fields)
    \/ \E b \in DOMAIN builders, n \in LimitArgs : Limit(b, n)
    \/ \E b \in DOMAIN builders, n \in OffsetArgs : Offset(b, n)
    \/ \E b \in DOMAIN builders, response \in ExecResponses : First(b, response)
    \/ \E b \in DOMAIN builders, response \in ExecResponses : All(b, response)
    \/ \E b \in DOMAIN builders, response \in CountResponses : Count(b, response)
    \/ \E b \in DOMAIN builders, response \in CountResponses : Exists(b, response)

Spec == Init /\ [][Next]_vars

\* ------------------------------------- one builder, where() on many lookups
id == <<"i", "d">>
engine == <<"e", "n", "g", "i", "n", "e">>
created == <<"c", "r", "e", "a", "t", "e", "d">>
at == <<"a", "t">>

\* keyword names: plain fields, field__operator lookups, a field that itself
\* holds the delimiter, lookups whose last segment is no operator token, and
\* the edge cases of the split (three underscores, nothing before it)
LookupKeys ==
    {manufacturer,
     max_speed,
     max_speed \o DELIM \o GT,
     max_speed \o DELIM \o LTE,
     id \o DELIM \o IN_,
     id \o DELIM \o NOT_IN,
     created \o DELIM \o IS_NOT_NULL,
     engine \o DELIM \o id \o DELIM \o EQ,
     engine \o DELIM \o id,
     created \o DELIM \o at,
     max_speed \o <<"_">> \o DELIM \o GT,
     DELIM \o GT}

LookupValues == {PyStr("Boeing"), PyList("[1, 2]")}

KwArgs ==
    {<<>>}
    \cup {<<Kw(k, v)>> : k \in LookupKeys, v \in LookupValues}
    \cup {<<Kw(manufacturer, PyStr("Boeing")), Kw(max_speed \o DELIM \o GT, PyStr("Boeing"))>>,
          <<Kw(max_speed \o DELIM \o GT, PyStr("Boeing")), Kw(max_speed \o DELIM \o LTE, PyList("[1, 2]"))>>,
          <<Kw(engine \o DELIM \o id, PyList("[1, 2]")), Kw(created \o DELIM \o at, PyStr("Boeing"))>>}

NextWhere ==
    \E b \in DOMAIN builders, kwargs \in KwArgs : Where(b, kwargs)

SpecWhere == Init /\ [][NextWhere]_vars

\* ------------------------- two builders from separate query() calls
InitTwo ==
    /\ builders = <<query("Aircraft"), query("Aircraft")>>
    /\ op = NoOp
    /\ record = NewRecord
    /\ now = 0

NextTwo ==
    \/ \E b \in DOMAIN builders : Where(b, <<Kw(manufacturer, PyStr("Boeing"))>>)
    \/ \E b \in DOMAIN builders : WithEngines(b)
    \/ \E b \in DOMAIN builders : OrderBy(b, <<"-max_speed">>)
    \/ \E b \in DOMAIN builders : Limit(b, 10)
    \/ \E b \in DOMAIN builders : Offset(b, 20)
    \/ \E b \in DOMAIN builders : Count(b, Return("int", 2))

SpecTwo == InitTwo /\ [][NextTwo]_vars

\* -------------------------------------------------- BaseModel.save / delete
\* What backend.insert(self) may do with the instance it is handed: return
\* leaving self.id as it is (assigned = None; SQLAlchemyBackend.insert and
\* Neo4jBackend.insert only log), return having set self.id (assigned =
\* Some(i)), or raise.
Ids == {1, 2}
InsertOutcomes ==
    {[kind |-> "return", assigned |-> a] : a \in {None} \cup {Some(i) : i \in Ids}}
    \cup {[kind |-> "raise", assigned |-> None]}
UpdateOutcomes == {[kind |-> "return", assigned |-> None],
                   [kind |-> "raise", assigned |-> None]}
DeleteOutcomes == UpdateOutcomes

Outcome(o) == IF o.kind = "raise" THEN BackendError ELSE Return("NoneType", <<>>)

\* (mutant) the update path stamps created_at as well
save_restamps_created(self, t1, t2, outcome) ==
    LET stamped == [self EXCEPT !.created_at = Some(t1), !.updated_at = Some(t2)]
    IN IF self.id = None
       THEN [self |-> IF outcome.assigned = None THEN stamped
                      ELSE [stamped EXCEPT !.id = outcome.assigned],
             calls |-> <<[method |-> "insert", instance |-> stamped,
                          response |-> Outcome(outcome)]>>,
             result |-> Outcome(outcome)]
       ELSE [self |-> stamped,
             calls |-> <<[method |-> "update", instance |-> stamped,
                          response |-> Outcome(outcome)]>>,
             result |-> Outcome(outcome)]

\* (mutant) save stamps the record only after the backend call has returned
save_stamps_after_call(self, t1, t2, outcome) ==
    LET stamped == IF self.id = None
                   THEN [self EXCEPT !.created_at = Some(t1), !.updated_at = Some(t2)]
                   ELSE [self EXCEPT !.updated_at = Some(t2)]
        done == IF outcome.assigned = None THEN stamped
                ELSE [stamped EXCEPT !.id = outcome.assigned]
    IN [self |-> IF outcome.kind = "raise" THEN self ELSE done,
        calls |-> <<[method |-> IF self.id = None THEN "insert" ELSE "update",
                     instance |-> self, response |-> Outcome(outcome)]>>,
        result |-> Outcome(outcome)]

\* (mutant) the insert path takes created_at from the later clock reading
\* and updated_at from the earlier one
save_swaps_stamps(self, t1, t2, outcome) ==
    IF self.id = None
    THEN LET stamped == [self EXCEPT !.created_at = Some(t2), !.updated_at = Some(t1)]
         IN [self |-> IF outcome.assigned = None THEN stamped
                      ELSE [stamped EXCEPT !.id = outcome.assigned],
             calls |-> <<[method |-> "insert", instance |-> stamped,
                          response |-> Outcome(outcome)]>>,
             result |-> Outcome(outcome)]
    ELSE LET stamped == [self EXCEPT !.updated_at = Some(t2)]
         IN [self |-> stamped,
             calls |-> <<[method |-> "update", instance |-> stamped,
                          response |-> Outcome(outcome)]>>,
             result |-> Outcome(outcome)]

\* BaseModel.save: t1 and t2 are the two readings of datetime.now() (the
\* update path reads the clock once, t2)
save(self, t1, t2, outcome) ==
    IF self.id = None
    THEN LET stamped == [self EXCEPT !.created_at = Some(t1), !.updated_at = Some(t2)]
         IN [self |-> IF outcome.assigned = None THEN stamped
                      ELSE [stamped EXCEPT !.id = outcome.assigned],
             calls |-> <<[method |-> "insert", instance |-> stamped,
                          response |-> Outcome(outcome)]>>,
             result |-> Outcome(outcome)]
    ELSE LET stamped == [self EXCEPT !.updated_at = Some(t2)]
         IN [self |-> stamped,
             calls |-> <<[method |-> "update", instance |-> stamped,
                          response |-> Outcome(outcome)]>>,
             result |-> Outcome(outcome)]

\* (mutant) delete calls the backend whether or not the record has an identity
delete_without_identity_check(self, outcome) ==
    [self |-> self,
     calls |-> <<[method |-> "delete", model_class |-> "Aircraft", id |-> self.id,
                  response |-> Outcome(outcome)]>>,
     result |-> Outcome(outcome)]

\* BaseModel.delete
delete(self, outcome) ==
    IF self.id # None
    THEN [self |-> self,
          calls |-> <<[method |-> "delete", model_class |-> "Aircraft", id |-> self.id,
                       response |-> Outcome(outcome)]>>,
          result |-> Outcome(outcome)]
    ELSE [self |-> self, calls |-> <<>>, result |-> Return("NoneType", <<>>)]

\* A call of method `name` on the record, finishing at clock reading t.
RecordCall(name, out, t) ==
    /\ record' = out.self
    /\ op' = [name |-> name, b |-> 0, args |-> <<>>,
              repeat |-> (op.name = name),
              calls |-> out.calls, result |-> out.result]
    /\ now' = t
    /\ UNCHANGED builders

Save(t1, t2, outcome) ==
    /\ now <= t1 /\ t1 <= t2 /\ t2 <= MaxClock
    /\ IF record.id = None
       THEN outcome \in InsertOutcomes
       ELSE outcome \in UpdateOutcomes /\ t1 = t2
    /\ RecordCall("save", save(record, t1, t2, outcome), t2)

Delete(outcome) ==
    /\ record.id = None => outcome.kind = "return"
    /\ RecordCall("delete", delete(record, outcome), now)

InitSave ==
    /\ builders = <<>>
    /\ op = NoOp
    /\ record = NewRecord
    /\ now = 0

NextSave ==
    \/ \E t1, t2 \in 0..MaxClock, outcome \in InsertOutcomes \cup UpdateOutcomes :
            Save(t1, t2, outcome)
    \/ \E outcome \in DeleteOutcomes : Delete(outcome)

SpecSave == InitSave /\ [][NextSave]_vars

\* ------------------------------------------------- the provided backends
\* SQLAlchemyBackend and Neo4jBackend as they are in the repository: insert,
\* update and delete log and return, leaving the instance as it was handed
\* in; execute_query returns the empty list, count_query returns 0.
SQLAlchemyBackend_insert == [kind |-> "return", assigned |-> None]
Neo4jBackend_insert == [kind |-> "return", assigned |-> None]
ProvidedInsert == {SQLAlchemyBackend_insert, Neo4jBackend_insert}
ProvidedUpdate == {[kind |-> "return", assigned |-> None]}
ProvidedDelete == {[kind |-> "return", assigned |-> None]}
ProvidedExecuteQuery == Return("list", <<>>)
ProvidedCountQuery == Return("int", 0)

\* One Aircraft record and one Aircraft builder used against a provided
\* backend.
NextProvided ==
    \/ \E t1, t2 \in 0..MaxClock, outcome \in ProvidedInsert \cup ProvidedUpdate :
            Save(t1, t2, outcome)
    \/ \E outcome \in ProvidedDelete : Delete(outcome)
    \/ \E b \in DOMAIN builders, kwargs \in KwExample : Where(b, kwargs)
    \/ \E b \in DOMAIN builders : All(b, ProvidedExecuteQuery)
    \/ \E b \in DOMAIN builders : Count(b, ProvidedCountQuery)

SpecProvided == Init /\ [][NextProvided]_vars

\* ------------------------------- get_by_id, group_by, aggregate; the whole API
\* What backend.get_by_id(cls, id) may answer: None, an instance, or an error.
GetByIdResponses ==
    {Return("NoneType", <<>>), Return("record", "r1"), BackendError}

\* BaseModel.get_by_id (classmethod): return backend.get_by_id(cls, id)
get_by_id(cls, i, response) ==
    [calls |-> <<[method |-> "get_by_id", model_class |-> cls, id |-> i,
                  response |-> response]>>,
     result |-> response]

GetById(i, response) ==
    /\ op' = [name |-> "get_by_id", b |-> 0, args |-> <<i>>,
              repeat |-> (op.name = "get_by_id"),
              calls |-> get_by_id("Aircraft", i, response).calls,
              result |-> get_by_id("Aircraft", i, response).result]
    /\ UNCHANGED <<builders, record, now>>

\* Aggregation.avg(field)
Aggregation_avg(field) == [type |-> "avg", field |-> field]

\* (mutant) group_by records the fields as ordering before it raises
group_by_orders(self, fields) ==
    [self |-> [self EXCEPT !._order_by_fields = @ \o fields],
     calls |-> <<>>, result |-> Raise("NotImplementedError")]

\* QueryBuilder.group_by: raise NotImplementedError(...)
group_by(self, fields) ==
    [self |-> self, calls |-> <<>>, result |-> Raise("NotImplementedError")]

\* QueryBuilder.aggregate: raise NotImplementedError(...)
aggregate(self, aggregation) ==
    [self |-> self, calls |-> <<>>, result |-> Raise("NotImplementedError")]

GroupBy(b, fields) == Call(b, "group_by", fields, group_by(builders[b], fields))

Aggregate(b, aggregation) ==
    Call(b, "aggregate", <<aggregation>>, aggregate(builders[b], aggregation))

\* One Aircraft builder and one Aircraft record: every terminal operation,
\* group_by and aggregate on the builder, every lifecycle operation on the
\* record, each backend call answering or failing.
NextApi ==
    \/ \E b \in DOMAIN builders : Where(b, <<Kw(manufacturer, PyStr("Boeing"))>>)
    \/ \E b \in DOMAIN builders : Limit(b, 10)
    \/ \E b \in DOMAIN builders, response \in ExecResponses : First(b, response)
    \/ \E b \in DOMAIN builders, response \in ExecResponses : All(b, response)
    \/ \E b \in DOMAIN builders, response \in CountResponses : Count(b, response)
    \/ \E b \in DOMAIN builders, response \in CountResponses : Exists(b, response)
    \/ \E b \in DOMAIN builders : GroupBy(b, <<"manufacturer">>)
    \/ \E b \in DOMAIN builders : Aggregate(b, Aggregation_avg("max_speed"))
    \/ \E t1, t2 \in 0..MaxClock, outcome \in InsertOutcomes \cup UpdateOutcomes :
            Save(t1, t2, outcome)
    \/ \E outcome \in DeleteOutcomes : Delete(outcome)
    \/ \E i \in Ids, response \in GetByIdResponses : GetById(i, response)

SpecApi == Init /\ [][NextApi]_vars

\* ------------------------------------------------- limit() / offset() arguments
\* Integers a caller may pass to limit() and offset(): the signatures take
\* any int.
PageArgs == {-1, 0, 10}

NextPaging ==
    \/ \E b \in DOMAIN builders : Where(b, <<Kw(manufacturer, PyStr("Boeing"))>>)
    \/ \E b \in DOMAIN builders, n \in PageArgs : Limit(b, n)
    \/ \E b \in DOMAIN builders, n \in PageArgs : Offset(b, n)
    \/ \E b \in DOMAIN builders : First(b, Return("list", <<>>))
    \/ \E b \in DOMAIN builders : All(b, Return("list", <<>>))

SpecPaging == Init /\ [][NextPaging]_vars

\* ------------------------------------------ two builders, every operation
\* Two builders from two Aircraft.query(backend) calls; every chained and
\* every terminal operation on either, in any interleaving. Each builder
\* takes at most MaxChained calls that lengthen one of its lists.
MaxChained == 2

Chained(b) ==
    Len(builders[b]._filters) + Len(builders[b]._relations)
        + Len(builders[b]._order_by_fields)

NextShare ==
    \/ \E b \in DOMAIN builders :
            /\ Chained(b) < MaxChained
            /\ Where(b, <<Kw(manufacturer, PyStr("Boeing"))>>)
    \/ \E b \in DOMAIN builders : Chained(b) < MaxChained /\ WithEngines(b)
    \/ \E b \in DOMAIN builders :
            Chained(b) < MaxChained /\ OrderBy(b, <<"-max_speed">>)
    \/ \E b \in DOMAIN builders : Limit(b, 10)
    \/ \E b \in DOMAIN builders : Offset(b, 20)
    \/ \E b \in DOMAIN builders : First(b, Return("list", <<>>))
    \/ \E b \in DOMAIN builders : All(b, Return("list", <<>>))
    \/ \E b \in DOMAIN builders : Count(b, Return("int", 0))
    \/ \E b \in DOMAIN builders : Exists(b, Return("int", 0))

SpecShare == InitTwo /\ [][NextShare]_vars

\* ------------------------------------------------------------------ claims
\* the conditions a call has just appended to builder b
Appended(b) ==
    SubSeq(builders'[b]._filters, Len(builders[b]._filters) + 1,
           Len(builders'[b]._filters))

\* C1: where() appends exactly one condition per keyword, after the conditions
\* already held; a keyword without the delimiter gives {keyword, eq, value},
\* and a keyword field__<op> with <op> one of the operator tokens gives
\* {field, <op>, value}.
C1_WhereAppendsOneConditionPerKeyword ==
    [][op'.name = "where" =>
        /\ Len(Appended(op'.b)) = Len(op'.args)
        /\ builders'[op'.b]._filters = builders[op'.b]._filters \o Appended(op'.b)
        /\ \A i \in 1..Len(op'.args) :
            LET key == op'.args[i].key
                c == Appended(op'.b)[i]
            IN /\ c.value = op'.args[i].value
               /\ ~Contains(key, DELIM) => (c.field = key /\ c.operator = EQ)
               /\ \A j \in 1..(Len(key) - 1) :
                    (/\ SubSeq(key, j, j + 1) = DELIM
                     /\ SubSeq(key, j + 2, Len(key)) \in FilterOperator)
                    => (/\ c.field = SubSeq(key, 1, j - 1)
                        /\ c.operator = SubSeq(key, j + 2, Len(key)))
    ]_vars

\* C1 witness: where(manufacturer=..., max_speed__gt=...) has appended
\* {manufacturer, eq, ...} and {max_speed, gt, ...}, and an earlier call with a
\* field that holds the delimiter has appended {engine__id, eq, ...}.
C1_Witness ==
    /\ op.name = "where"
    /\ Len(op.args) = 1
    /\ op.args[1].key = max_speed \o DELIM \o GT
    /\ Len(builders[1]._filters) = 2
    /\ builders[1]._filters[1] =
         [field |-> engine \o DELIM \o id, operator |-> EQ, value |-> PyList("[1, 2]")]
    /\ builders[1]._filters[2] =
         [field |-> max_speed, operator |-> GT, value |-> PyStr("Boeing")]

\* the segment after the last occurrence of the delimiter
LastSegment(key) == SubSeq(key, RFind(key, DELIM) + Len(DELIM), Len(key))

\* C2: a keyword that holds the delimiter but whose last segment is not an
\* operator token is stored whole as the field, with operator eq.
C2_UnrecognisedSuffixKeepsWholeKeyword ==
    [][op'.name = "where" =>
        \A i \in 1..Len(op'.args) :
            LET key == op'.args[i].key
                c == Appended(op'.b)[i]
            IN (Contains(key, DELIM) /\ LastSegment(key) \notin FilterOperator)
               => (c.field = key /\ c.operator = EQ)
    ]_vars

\* what a backend call asks for: the call without the backend's answer
Intent(call) == [k \in DOMAIN call \ {"response"} |-> call[k]]

\* C3: all() makes one execute_query call carrying the builder's record type,
\* filters, relations, order-by, limit and offset as they are when all() is
\* called, and returns what the backend answered.
C3_AllPassesAccumulatedIntent ==
    [][op'.name = "all" =>
        LET self == builders[op'.b]
        IN /\ Len(op'.calls) = 1
           /\ Intent(op'.calls[1]) =
                [method |-> "execute_query",
                 model_class |-> self.model_class,
                 filters |-> self._filters,
                 relations |-> self._relations,
                 order_by |-> self._order_by_fields,
                 limit |-> self._limit_value,
                 offset |-> self._offset_value]
           /\ op'.result = op'.calls[1].response
    ]_vars

\* C3 witness: where(manufacturer="Boeing").where(max_speed__gt=500)
\* .order_by("-max_speed").limit(10).all() has asked for exactly that, offset
\* unset, and returned the backend's two rows.
C3_Witness ==
    /\ op.name = "all"
    /\ Intent(op.calls[1]) =
         [method |-> "execute_query",
          model_class |-> "Aircraft",
          filters |-> <<[field |-> manufacturer, operator |-> EQ, value |-> PyStr("Boeing")],
                        [field |-> max_speed, operator |-> GT, value |-> PyInt("500")]>>,
          relations |-> <<>>,
          order_by |-> <<"-max_speed">>,
          limit |-> Some(10),
          offset |-> None]
    /\ op.result = Return("list", <<"r2", "r1">>)

\* C4: no terminal operation changes the builder's filters, relations,
\* order-by, limit or offset.
C4_TerminalOperationsLeaveIntentUnchanged ==
    [][op'.name \in {"all", "first", "count", "exists"} =>
        /\ builders'[op'.b]._filters = builders[op'.b]._filters
        /\ builders'[op'.b]._relations = builders[op'.b]._relations
        /\ builders'[op'.b]._order_by_fields = builders[op'.b]._order_by_fields
        /\ builders'[op'.b]._limit_value = builders[op'.b]._limit_value
        /\ builders'[op'.b]._offset_value = builders[op'.b]._offset_value
    ]_vars

\* C5: first() makes one execute_query call with limit 1 and with the filters,
\* relations, order-by and offset as accumulated; when the backend answers it
\* returns the first row, or None for an empty answer.
C5_FirstExecutesWithLimitOne ==
    [][op'.name = "first" =>
        LET self == builders[op'.b]
            response == op'.calls[1].response
        IN /\ Len(op'.calls) = 1
           /\ Intent(op'.calls[1]) =
                [method |-> "execute_query",
                 model_class |-> self.model_class,
                 filters |-> self._filters,
                 relations |-> self._relations,
                 order_by |-> self._order_by_fields,
                 limit |-> Some(1),
                 offset |-> self._offset_value]
           /\ response.kind = "return" =>
                op'.result = IF response.val = <<>>
                             THEN Return("NoneType", <<>>)
                             ELSE Return("record", Head(response.val))
    ]_vars

\* C5 witness: first() on a builder with filters and an offset has asked with
\* limit 1 and returned the first of the backend's two rows.
C5_Witness ==
    /\ op.name = "first"
    /\ Len(op.calls[1].filters) = 2
    /\ op.calls[1].offset = Some(20)
    /\ op.calls[1].limit = Some(1)
    /\ op.calls[1].response = Return("list", <<"r2", "r1">>)
    /\ op.result = Return("record", "r2")

ChainedNames ==
    {"where", "with_relations", "with_engines", "with_aircraft", "with_route",
     "order_by", "limit", "offset"}

\* C6: limit(n) sets the limit to n and leaves the offset alone, offset(n) sets
\* the offset to n and leaves the limit alone, and no other chained call
\* touches either: the limit (offset) is the argument of the latest call.
C6_LimitAndOffsetOverwrite ==
    [][op'.name \in ChainedNames =>
        LET old == builders[op'.b]
            new == builders'[op'.b]
        IN /\ new._limit_value =
                IF op'.name = "limit" THEN Some(op'.args[1]) ELSE old._limit_value
           /\ new._offset_value =
                IF op'.name = "offset" THEN Some(op'.args[1]) ELSE old._offset_value
    ]_vars

\* C6 witness: limit(10) called twice in a row, after offset(20): the limit is
\* 10 and the offset still 20.
C6_Witness ==
    /\ op.name = "limit"
    /\ op.args = <<10>>
    /\ op.repeat
    /\ builders[op.b]._limit_value = Some(10)
    /\ builders[op.b]._offset_value = Some(20)

\* C8: exists() makes one count_query call for the builder's filters and,
\* when the backend answers n, returns whether n > 0.
C8_ExistsIffCountPositive ==
    [][op'.name = "exists" =>
        LET self == builders[op'.b]
            response == op'.calls[1].response
        IN /\ Len(op'.calls) = 1
           /\ Intent(op'.calls[1]) =
                [method |-> "count_query",
                 model_class |-> self.model_class,
                 filters |-> self._filters]
           /\ response.kind = "return" =>
                /\ op'.result.kind = "return"
                /\ op'.result.type = "bool"
                /\ op'.result.val = (response.val > 0)
    ]_vars

\* C8 witness: exists() has returned true for a backend count of exactly 1
C8_Witness ==
    /\ op.name = "exists"
    /\ builders[op.b]._filters # <<>>
    /\ op.calls[1].response = Return("int", 1)
    /\ op.result = Return("bool", TRUE)

\* C9: an all() that directly follows an all() on the same builder makes its
\* own execute_query call, and the two calls ask for the same thing.
C9_AllTwiceExecutesTwiceWithSameIntent ==
    [][(op.name = "all" /\ op'.name = "all" /\ op'.b = op.b) =>
        /\ Len(op.calls) = 1
        /\ Len(op'.calls) = 1
        /\ op'.calls[1].method = "execute_query"
        /\ Intent(op'.calls[1]) = Intent(op.calls[1])
    ]_vars

\* C9 witness: all() has just been called for the second time in a row on a
\* builder with filters, an ordering and a limit
C9_Witness ==
    /\ op.name = "all"
    /\ op.repeat
    /\ Len(op.calls) = 1
    /\ builders[op.b]._filters # <<>>
    /\ builders[op.b]._order_by_fields # <<>>
    /\ builders[op.b]._limit_value = Some(10)

\* C7: count() makes one count_query call (never execute_query) whose
\* arguments are the record type and the filters and nothing else; a count()
\* on one builder directly after a count() on another builder with the same
\* record type and equal filters asks the backend for the same thing, however
\* the two differ in relations, order-by, limit and offset.
C7_CountIgnoresRelationsOrderLimitOffset ==
    [][op'.name = "count" =>
        LET self == builders[op'.b]
        IN /\ Len(op'.calls) = 1
           /\ Intent(op'.calls[1]) =
                [method |-> "count_query",
                 model_class |-> self.model_class,
                 filters |-> self._filters]
           /\ (/\ op.name = "count"
               /\ op.b # op'.b
               /\ builders[op.b].model_class = self.model_class
               /\ builders[op.b]._filters = self._filters)
              => Intent(op'.calls[1]) = Intent(op.calls[1])
    ]_vars

\* C7 witness: count() on the second of two Aircraft builders that hold the
\* same filter and differ in relations, order-by, limit and offset
C7_Witness ==
    /\ op.name = "count"
    /\ op.b = 2
    /\ builders[1].model_class = builders[2].model_class
    /\ builders[1]._filters = builders[2]._filters
    /\ builders[2]._filters # <<>>
    /\ builders[1]._relations # builders[2]._relations
    /\ builders[1]._order_by_fields # builders[2]._order_by_fields
    /\ builders[1]._limit_value # builders[2]._limit_value
    /\ builders[1]._offset_value # builders[2]._offset_value

Methods(calls) == [i \in DOMAIN calls |-> calls[i].method]

\* C10: save() of a record without identity sets created_at and updated_at
\* to readings of the clock taken during the call and calls insert once and
\* update never; save() of a record with an identity calls update once and
\* insert never, sets updated_at to the clock reading and leaves created_at
\* (and the identity) as they were.
C10_SaveInsertsThenUpdates ==
    [][op'.name = "save" =>
        IF record.id = None
        THEN /\ Methods(op'.calls) = <<"insert">>
             /\ \E t1, t2 \in now..now' :
                    /\ t1 <= t2
                    /\ record'.created_at = Some(t1)
                    /\ record'.updated_at = Some(t2)
        ELSE /\ Methods(op'.calls) = <<"update">>
             /\ record'.updated_at = Some(now')
             /\ record'.created_at = record.created_at
             /\ record'.id = record.id
    ]_vars

\* C10 witness: the record was saved (insert, identity assigned) and has
\* been saved again at a later time: update was called, updated_at moved on
\* and created_at kept the time of the first save.
C10_Witness ==
    /\ op.name = "save"
    /\ Methods(op.calls) = <<"update">>
    /\ record.id = Some(1)
    /\ record.created_at = Some(0)
    /\ record.updated_at = Some(2)

\* C11: after save() of a record without identity returns normally against a
\* provided backend (SQLAlchemyBackend or Neo4jBackend), the record's id is
\* set, and a save() that follows a save() that returned normally takes the
\* update path (update called once, insert never).
C11_InsertAssignsIdentity ==
    [][op'.name = "save" =>
        /\ (record.id = None /\ op'.result.kind = "return") => record'.id # None
        /\ (op.name = "save" /\ op.result.kind = "return")
                => Methods(op'.calls) = <<"update">>
    ]_vars

\* C12: delete() on a record without identity makes no backend call and
\* changes nothing; on a record with an identity it makes exactly one backend
\* call, delete with the record's class and its identity, and leaves the
\* record as it was.
C12_DeleteCallsBackendOnlyWithIdentity ==
    [][op'.name = "delete" =>
        /\ record' = record
        /\ IF record.id = None
           THEN /\ op'.calls = <<>>
                /\ op'.result = Return("NoneType", <<>>)
           ELSE /\ Len(op'.calls) = 1
                /\ Intent(op'.calls[1]) =
                        [method |-> "delete", model_class |-> "Aircraft",
                         id |-> record.id]
    ]_vars

\* C12 witness: delete() has called the backend once for a record that was
\* saved and given identity 2
C12_Witness ==
    /\ op.name = "delete"
    /\ record.id = Some(2)
    /\ Len(op.calls) = 1
    /\ op.calls[1].id = Some(2)

TerminalAndLifecycle ==
    {"all", "first", "count", "exists", "save", "delete", "get_by_id"}

\* C13: all, first, count, exists, save, delete and get_by_id make at most one
\* backend call, and when that call fails the operation makes no further call
\* and fails with the same error instead of returning a normal result.
C13_BackendErrorsPropagate ==
    [][op'.name \in TerminalAndLifecycle =>
        /\ Len(op'.calls) <= 1
        /\ \A i \in DOMAIN op'.calls :
                op'.calls[i].response.kind = "raise"
                    => op'.result = op'.calls[i].response
        /\ op'.result.kind = "raise"
                => \E i \in DOMAIN op'.calls : op'.calls[i].response = op'.result
    ]_vars

\* C13 witness: exists() failed with the backend's error after one
\* count_query call
C13_Witness ==
    /\ op.name = "exists"
    /\ Methods(op.calls) = <<"count_query">>
    /\ op.calls[1].response = BackendError
    /\ op.result = BackendError

\* C14: group_by() and aggregate() fail with NotImplementedError in every
\* builder state, make no backend call and leave the builder's filters,
\* relations, order-by, limit and offset as they were; an all() that follows
\* hands the backend the intent the builder held before the failed call.
C14_GroupByAndAggregateNotImplemented ==
    [][/\ op'.name \in {"group_by", "aggregate"} =>
            /\ op'.result = Raise("NotImplementedError")
            /\ op'.calls = <<>>
            /\ builders' = builders
       /\ (op.name \in {"group_by", "aggregate"} /\ op'.name = "all") =>
            /\ Len(op'.calls) = 1
            /\ Intent(op'.calls[1]) =
                    Intent(execute_query(builders[op'.b], op'.result))
    ]_vars

\* C14 witness: aggregate() has failed on a builder that holds a filter and
\* a limit
C14_Witness ==
    /\ op.name = "aggregate"
    /\ op.result = Raise("NotImplementedError")
    /\ op.calls = <<>>
    /\ builders[op.b]._filters = <<Condition(manufacturer, PyStr("Boeing"))>>
    /\ builders[op.b]._limit_value = Some(10)

\* C15: every filter condition held by a builder has a non-empty field, an
\* operator that is one of the eleven operator tokens, and a list value
\* whenever the operator is in or not_in.
C15_FilterConditionInvariant ==
    \A b \in DOMAIN builders :
        \A i \in DOMAIN builders[b]._filters :
            LET c == builders[b]._filters[i]
            IN /\ c.field # <<>>
               /\ c.operator \in FilterOperator
               /\ c.operator \in {IN_, NOT_IN} => c.value.type = "list"

\* a limit or offset that is unset or a non-negative integer
UnsetOrNonNegative(v) == \A n \in v : n >= 0

\* C16: in every builder state the limit is unset or a non-negative integer
\* and the offset is unset or a non-negative integer, and so are the limit
\* and offset of every intent handed to the backend.
C16_LimitAndOffsetNonNegative ==
    /\ \A b \in DOMAIN builders :
            /\ UnsetOrNonNegative(builders[b]._limit_value)
            /\ UnsetOrNonNegative(builders[b]._offset_value)
    /\ \A i \in DOMAIN op.calls :
            op.calls[i].method = "execute_query" =>
                /\ UnsetOrNonNegative(op.calls[i].limit)
                /\ UnsetOrNonNegative(op.calls[i].offset)

\* C17: the filter sequence is append-only. Every builder operation leaves
\* the conditions held before it as a prefix of the conditions held after
\* it; only where() adds conditions, one per keyword in call order after the
\* earlier ones, also when a keyword names a field that is already filtered.
C17_FiltersAppendOnly ==
    [][\A b \in DOMAIN builders :
        LET before == builders[b]._filters
            after == builders'[b]._filters
        IN /\ Len(after) >= Len(before)
           /\ SubSeq(after, 1, Len(before)) = before
           /\ IF op'.name = "where" /\ op'.b = b
              THEN /\ Len(after) = Len(before) + Len(op'.args)
                   /\ \A i \in DOMAIN op'.args :
                        after[Len(before) + i] =
                            Condition(op'.args[i].key, op'.args[i].value)
              ELSE after = before
    ]_vars

\* C17 witness: a second where() naming max_speed has added a second
\* condition on max_speed after the first
C17_Witness ==
    /\ op.name = "where"
    /\ op.repeat
    /\ Len(builders[op.b]._filters) = 2
    /\ builders[op.b]._filters[1].field = max_speed
    /\ builders[op.b]._filters[2].field = max_speed

\* C18: for two builders made by separate query() calls for the same record
\* type, no chained or terminal operation on one of them changes the
\* filters, relations, order-by, limit or offset of the other.
C18_BuildersShareNoIntent ==
    [][\A o \in DOMAIN builders :
        o # op'.b =>
            /\ builders'[o]._filters = builders[o]._filters
            /\ builders'[o]._relations = builders[o]._relations
            /\ builders'[o]._order_by_fields = builders[o]._order_by_fields
            /\ builders'[o]._limit_value = builders[o]._limit_value
            /\ builders'[o]._offset_value = builders[o]._offset_value
    ]_vars

\* C18 witness: first() has run on the first builder, which holds no filter
\* and now the limit 1, while the second builder of the same record type
\* holds a filter, a relation, the limit 10 and the offset 20
C18_Witness ==
    /\ op.name = "first"
    /\ op.b = 1
    /\ builders[1].model_class = builders[2].model_class
    /\ builders[1]._filters = <<>>
    /\ builders[1]._limit_value = Some(1)
    /\ builders[2]._filters # <<>>
    /\ builders[2]._relations # <<>>
    /\ builders[2]._limit_value = Some(10)
    /\ builders[2]._offset_value = Some(20)

\* C19: save() stamps the record before it calls the backend. When insert
\* fails during save() of a record without identity, the record is left with
\* created_at and updated_at set to the clock readings of that call and
\* still without identity, and the instance handed to insert already carried
\* those timestamps; a save() that follows takes the insert path again and
\* sets created_at anew.
C19_SaveStampsBeforeBackendCall ==
    [][op'.name = "save" =>
        /\ (record.id = None /\ op'.result.kind = "raise") =>
            /\ record'.id = None
            /\ record'.created_at # None
            /\ record'.updated_at = Some(now')
            /\ op'.calls[1].instance.created_at = record'.created_at
            /\ op'.calls[1].instance.updated_at = record'.updated_at
        /\ (op.name = "save" /\ op.result.kind = "raise" /\ record.id = None) =>
            /\ Methods(op'.calls) = <<"insert">>
            /\ \E t \in now..now' : record'.created_at = Some(t)
    ]_vars

\* C19 witness: a save() that followed a save() took the insert path, failed,
\* and left the record without identity and with created_at at the later
\* clock reading 2
C19_Witness ==
    /\ op.name = "save"
    /\ op.repeat
    /\ Methods(op.calls) = <<"insert">>
    /\ op.result = BackendError
    /\ record.id = None
    /\ record.created_at = Some(2)
    /\ record.updated_at = Some(2)

\* C20: a record that starts without identity and timestamps and is changed
\* only by save() under a non-decreasing clock has created_at set whenever
\* updated_at is set, and created_at is never later than updated_at.
C20_CreatedNotAfterUpdated ==
    \A u \in record.updated_at :
        /\ record.created_at # None
        /\ \A c \in record.created_at : c <= u

\* C20 witness: the record was inserted at time 0 and updated at time 2
C20_Witness ==
    /\ op.name = "save"
    /\ op.repeat
    /\ record.id # None
    /\ record.created_at = Some(0)
    /\ record.updated_at = Some(2)
    /\ now = 2

====
